---- MODULE Spec2Model ----
(***************************************************************************)
(* Model of src/worker/mcp-worker.js: a Web Worker that loads a WASM       *)
(* module on the first stdin message and emulates the WASI calls fd_write  *)
(* and fd_read on top of postMessage / onmessage.                          *)
(*                                                                         *)
(* Text is a sequence of UTF-16 code units, as a JavaScript string is;     *)
(* memory is a function from byte addresses to bytes.                      *)
(* The worker is single threaded: one handler runs at a time, and while    *)
(* code of a module executes (pc # 0: its start function during the        *)
(* instantiation of line 8, or its entry point _start) no message handler  *)
(* and no other load continuation can run.                                 *)
(* The await of line 8 resumes in a turn of the event loop of its own:     *)
(* between the end of a start function and lines 57-61 (or the catch of    *)
(* line 62) the handlers of other messages may run.                        *)
(* An exception thrown by a hook goes back to the module that called it:   *)
(* the module catches it and goes on, or lets it leave its frames.         *)
(***************************************************************************)
EXTENDS Integers, Sequences, FiniteSets, TLC

(***************************************************************************)
(* Bounds of the model.                                                    *)
(***************************************************************************)
MaxMsgs == 2
MaxCalls == 2
MaxCallsIO == 3

(***************************************************************************)
(* Code points and bytes.                                                  *)
(***************************************************************************)
NL == 10
Replacement == 65533
BOM == 65279

Min(a, b) == IF a < b THEN a ELSE b

RECURSIVE Concat(_)
Concat(ss) == IF ss = <<>> THEN <<>> ELSE Head(ss) \o Concat(Tail(ss))

\* String.prototype.includes('\n')
Includes(text, c) == \E k \in 1..Len(text) : text[k] = c

\* The UTF-16 code units of the code point cp.
Units(cp) ==
  IF cp < 65536 THEN <<cp>>
  ELSE <<55296 + ((cp - 65536) \div 1024), 56320 + ((cp - 65536) % 1024)>>

\* The UTF-8 decoder of new TextDecoder(): the number of continuation bytes
\* that the lead byte b calls for (-1: b cannot start a sequence), and the
\* range of the j-th continuation byte after b.
Needed(b) ==
  IF b < 128 THEN 0
  ELSE IF b >= 194 /\ b <= 223 THEN 1
  ELSE IF b >= 224 /\ b <= 239 THEN 2
  ELSE IF b >= 240 /\ b <= 244 THEN 3
  ELSE -1
Lower(b, j) == IF j = 1 /\ b = 224 THEN 160 ELSE IF j = 1 /\ b = 240 THEN 144 ELSE 128
Upper(b, j) == IF j = 1 /\ b = 237 THEN 159 ELSE IF j = 1 /\ b = 244 THEN 143 ELSE 191

\* The number of bytes after the lead byte Head(bytes) that continue its
\* sequence, counted from the j-th, at most n.
RECURSIVE Continues(_, _, _)
Continues(bytes, j, n) ==
  IF j > n THEN n
  ELSE IF Len(bytes) < 1 + j
          \/ bytes[1 + j] < Lower(Head(bytes), j)
          \/ bytes[1 + j] > Upper(Head(bytes), j)
       THEN j - 1
       ELSE Continues(bytes, j + 1, n)

\* The code point of the complete sequence of n + 1 bytes at the head of bytes.
CodePoint(bytes, n) ==
  IF n = 0 THEN bytes[1]
  ELSE IF n = 1 THEN (bytes[1] - 192) * 64 + (bytes[2] - 128)
  ELSE IF n = 2 THEN (bytes[1] - 224) * 4096 + (bytes[2] - 128) * 64 + (bytes[3] - 128)
  ELSE (bytes[1] - 240) * 262144 + (bytes[2] - 128) * 4096
       + (bytes[3] - 128) * 64 + (bytes[4] - 128)

\* A sequence that is cut short or malformed becomes one U+FFFD, and decoding
\* resumes at the byte that did not continue it.
RECURSIVE DecodeRaw(_)
DecodeRaw(bytes) ==
  IF bytes = <<>> THEN <<>>
  ELSE LET n == Needed(Head(bytes))
           k == IF n < 0 THEN 0 ELSE Continues(bytes, 1, n)
       IN  (IF n >= 0 /\ k = n THEN Units(CodePoint(bytes, n)) ELSE <<Replacement>>)
           \o DecodeRaw(SubSeq(bytes, k + 2, Len(bytes)))

\* new TextDecoder().decode(bytes): UTF-8 to UTF-16 code units; a byte order
\* mark at the start is dropped (ignoreBOM is false).
Decode(bytes) ==
  LET text == DecodeRaw(bytes)
  IN  IF text # <<>> /\ Head(text) = BOM THEN Tail(text) ELSE text

IsHigh(u) == u >= 55296 /\ u <= 56319
IsLow(u) == u >= 56320 /\ u <= 57343

\* The UTF-8 bytes of the code point cp.
Utf8(cp) ==
  IF cp < 128 THEN <<cp>>
  ELSE IF cp < 2048 THEN <<192 + (cp \div 64), 128 + (cp % 64)>>
  ELSE IF cp < 65536
       THEN <<224 + (cp \div 4096), 128 + ((cp \div 64) % 64), 128 + (cp % 64)>>
  ELSE <<240 + (cp \div 262144), 128 + ((cp \div 4096) % 64),
         128 + ((cp \div 64) % 64), 128 + (cp % 64)>>

\* new TextEncoder().encode(text): UTF-16 code units to UTF-8; a surrogate
\* pair is one code point, a surrogate without its partner becomes U+FFFD.
RECURSIVE Encode(_)
Encode(text) ==
  IF text = <<>> THEN <<>>
  ELSE LET u == Head(text)
       IN  IF IsHigh(u) /\ Len(text) >= 2 /\ IsLow(text[2])
           THEN Utf8(65536 + (u - 55296) * 1024 + (text[2] - 56320))
                \o Encode(Tail(Tail(text)))
           ELSE (IF IsHigh(u) \/ IsLow(u) THEN Utf8(Replacement) ELSE Utf8(u))
                \o Encode(Tail(text))

(***************************************************************************)
(* The module's linear memory, as the hooks see it.  The module keeps its  *)
(* vector table and its text in data segments; afterwards its memory is    *)
(* changed by the stores of the hooks: the bytes a read copies in (line 46)*)
(* are the text a later write decodes (line 19).                           *)
(***************************************************************************)
MemSize == 80
TableBase == 0
DataBase == 64
OutBase == 72
Sentinel == 7

Addr == 0..(MemSize - 1)

\* new Uint32Array(memory.buffer, p, n): RangeError unless aligned and inside.
U32InRange(p, n) == p >= 0 /\ n >= 0 /\ p % 4 = 0 /\ p + 4 * n <= MemSize
\* new Uint8Array(memory.buffer, p, n): RangeError unless inside.
U8InRange(p, n) == p >= 0 /\ n >= 0 /\ p + n <= MemSize

\* Little-endian 32-bit load and store.
ReadU32(mem, p) ==
  mem[p] + 256 * mem[p + 1] + 65536 * mem[p + 2] + 16777216 * mem[p + 3]
WriteU32(mem, p, v) ==
  [mem EXCEPT ![p] = v % 256,
              ![p + 1] = (v \div 256) % 256,
              ![p + 2] = (v \div 65536) % 256,
              ![p + 3] = (v \div 16777216) % 256]

ReadBytes(mem, p, n) == [k \in 1..n |-> mem[p + k - 1]]
RECURSIVE WriteBytes(_, _, _)
WriteBytes(mem, p, bytes) ==
  IF bytes = <<>> THEN mem
  ELSE WriteBytes([mem EXCEPT ![p] = Head(bytes)], p + 1, Tail(bytes))

\* The bytes the module keeps at DataBase: "a\nb", the two bytes of U+00E9,
\* "\n", "ab".
DataBytes == <<97, 10, 98, 195, 169, 10, 97, 98>>

\* Vectors into the module's text: "a", "a\n", "\nb", a lone lead byte, and
\* one that runs past the end of memory.
VecA == <<DataBase, 1>>
VecANl == <<DataBase, 2>>
VecNlB == <<DataBase + 1, 2>>
VecLead == <<DataBase + 3, 1>>
VecOut == <<MemSize - 1, 2>>

\* The vectors (ptr, len pairs, 32-bit little-endian) the module keeps at
\* TableBase.  A hook call passes the address of one of them and a count: the
\* vector list of the call is that many consecutive vectors.
ModuleTable == <<VecA, VecANl, VecANl, VecA, VecNlB, VecLead, VecANl, VecOut>>
At(k) == TableBase + 8 * (k - 1)

RECURSIVE PutTable(_, _, _)
PutTable(mem, iovList, k) ==
  IF k > Len(iovList) THEN mem
  ELSE PutTable(WriteU32(WriteU32(mem, At(k), iovList[k][1]),
                         At(k) + 4, iovList[k][2]),
                iovList, k + 1)

\* The memory of an instance as instantiated, from the module's data
\* segments: the vectors at TableBase, the text at DataBase and a non-zero
\* word at OutBase.
DataImage ==
  WriteU32(PutTable([a \in Addr |->
                       IF a >= DataBase /\ a < DataBase + Len(DataBytes)
                       THEN DataBytes[a - DataBase + 1] ELSE 0],
                    ModuleTable, 1),
           OutBase, Sentinel)

(***************************************************************************)
(* Events posted to the main thread.  line is the source line of the       *)
(* postMessage call that produced the event.                               *)
(***************************************************************************)
InitError == <<73, 110, 105, 116>>

StdoutEvent(data) == [type |-> "stdout", data |-> data, serverPath |-> 0, line |-> 23]
StderrEvent(data) == [type |-> "stderr", data |-> data, serverPath |-> 0, line |-> 27]
InitEvent(path) == [type |-> "init", data |-> <<>>, serverPath |-> path, line |-> 61]
InitErrorEvent == [type |-> "stderr", data |-> InitError, serverPath |-> 0, line |-> 63]

(***************************************************************************)
(* fd_write                                                                *)
(***************************************************************************)
\* WriteVec with the accumulated text left out of the stdout event.
WriteVec_DataOnly(acc, fd, data, len) ==
  LET flush == fd = 1 /\ Includes(data, NL)
  IN  [buf |-> IF fd = 1
               THEN (IF flush THEN <<>> ELSE acc.buf \o data)
               ELSE acc.buf,
       posted |-> IF fd = 1
                  THEN (IF flush
                        THEN Append(acc.posted, StdoutEvent(data))
                        ELSE acc.posted)
                  ELSE Append(acc.posted, StderrEvent(data)),
       written |-> acc.written + len,
       vecs |-> Append(acc.vecs, data),
       threw |-> FALSE]

\* WriteVec without the test of line 22: every vector is flushed.
WriteVec_AlwaysFlush(acc, fd, data, len) ==
  [buf |-> IF fd = 1 THEN <<>> ELSE acc.buf,
   posted |-> IF fd = 1
              THEN Append(acc.posted, StdoutEvent(acc.buf \o data))
              ELSE Append(acc.posted, StderrEvent(data)),
   written |-> acc.written + len,
   vecs |-> Append(acc.vecs, data),
   threw |-> FALSE]

\* WriteVec with the event of a vector posted ahead of the earlier events of
\* the same call.
WriteVec_Prepend(acc, fd, data, len) ==
  LET flush == fd = 1 /\ Includes(data, NL)
  IN  [buf |-> IF fd = 1
               THEN (IF flush THEN <<>> ELSE acc.buf \o data)
               ELSE acc.buf,
       posted |-> IF fd = 1
                  THEN (IF flush
                        THEN <<StdoutEvent(acc.buf \o data)>> \o acc.posted
                        ELSE acc.posted)
                  ELSE <<StderrEvent(data)>> \o acc.posted,
       written |-> acc.written + len,
       vecs |-> Append(acc.vecs, data),
       threw |-> FALSE]

\* WriteVec without the reset of line 24: the flushed text stays accumulated.
WriteVec_NoReset(acc, fd, data, len) ==
  LET flush == fd = 1 /\ Includes(data, NL)
  IN  [buf |-> IF fd = 1 THEN acc.buf \o data ELSE acc.buf,
       posted |-> IF fd = 1
                  THEN (IF flush
                        THEN Append(acc.posted, StdoutEvent(acc.buf \o data))
                        ELSE acc.posted)
                  ELSE Append(acc.posted, StderrEvent(data)),
       written |-> acc.written + len,
       vecs |-> Append(acc.vecs, data),
       threw |-> FALSE]

\* Lines 19-29: one vector of one fd_write call, already decoded.
\* acc = [buf: stdoutBuffer, posted: events posted by this call,
\*        written: byte count, vecs: decoded text of the vectors handled]
WriteVec(acc, fd, data, len) ==
  LET flush == fd = 1 /\ Includes(data, NL)
  IN  [buf |-> IF fd = 1
               THEN (IF flush THEN <<>> ELSE acc.buf \o data)
               ELSE acc.buf,
       posted |-> IF fd = 1
                  THEN (IF flush
                        THEN Append(acc.posted, StdoutEvent(acc.buf \o data))
                        ELSE acc.posted)
                  ELSE Append(acc.posted, StderrEvent(data)),
       written |-> acc.written + len,
       vecs |-> Append(acc.vecs, data),
       threw |-> FALSE]

\* Lines 16-30: the loop over the vectors; a RangeError of line 19 ends it.
RECURSIVE WriteLoop(_, _, _, _, _, _)
WriteLoop(mem, iovs, iovsLen, fd, i, acc) ==
  IF i >= iovsLen THEN acc
  ELSE LET ptr == ReadU32(mem, iovs + 8 * i)
           len == ReadU32(mem, iovs + 8 * i + 4)
       IN  IF ~U8InRange(ptr, len) THEN [acc EXCEPT !.threw = TRUE]
           ELSE WriteLoop(mem, iovs, iovsLen, fd, i + 1,
                          WriteVec(acc, fd, Decode(ReadBytes(mem, ptr, len)), len))

\* fd_write without the test of line 12: any stream other than 1 is handled
\* as stream 2.
fd_write_AnyStream(buf, mem, fd, iovs, iovsLen, nwritten) ==
  LET acc0 == [buf |-> buf, posted |-> <<>>, written |-> 0, vecs |-> <<>>,
               threw |-> FALSE]
  IN  IF ~U32InRange(iovs, iovsLen * 2)
      THEN [buf |-> buf, posted |-> <<>>, vecs |-> <<>>, mem |-> mem,
            threw |-> TRUE, ret |-> 0]
      ELSE LET acc == WriteLoop(mem, iovs, iovsLen, fd, 0, acc0)
           IN  IF acc.threw \/ ~U32InRange(nwritten, 1)
               THEN [buf |-> acc.buf, posted |-> acc.posted, vecs |-> acc.vecs,
                     mem |-> mem, threw |-> TRUE, ret |-> 0]
               ELSE [buf |-> acc.buf, posted |-> acc.posted, vecs |-> acc.vecs,
                     mem |-> WriteU32(mem, nwritten, acc.written),
                     threw |-> FALSE, ret |-> 0]

\* Lines 11-35.  The result: the new stdoutBuffer, the events posted, the
\* memory afterwards, and either the status returned or threw = TRUE.
fd_write(buf, mem, fd, iovs, iovsLen, nwritten) ==
  LET acc0 == [buf |-> buf, posted |-> <<>>, written |-> 0, vecs |-> <<>>,
               threw |-> FALSE]
  IN  IF fd = 1 \/ fd = 2
      THEN IF ~U32InRange(iovs, iovsLen * 2)
           THEN [buf |-> buf, posted |-> <<>>, vecs |-> <<>>, mem |-> mem,
                 threw |-> TRUE, ret |-> 0]
           ELSE LET acc == WriteLoop(mem, iovs, iovsLen, fd, 0, acc0)
                IN  IF acc.threw \/ ~U32InRange(nwritten, 1)
                    THEN [buf |-> acc.buf, posted |-> acc.posted, vecs |-> acc.vecs,
                          mem |-> mem, threw |-> TRUE, ret |-> 0]
                    ELSE [buf |-> acc.buf, posted |-> acc.posted, vecs |-> acc.vecs,
                          mem |-> WriteU32(mem, nwritten, acc.written),
                          threw |-> FALSE, ret |-> 0]
      ELSE [buf |-> buf, posted |-> <<>>, vecs |-> <<>>, mem |-> mem,
            threw |-> FALSE, ret |-> -1]

(***************************************************************************)
(* fd_read                                                                 *)
(***************************************************************************)
\* Lines 42-48: copy the queue's bytes into the vectors.
\* acc = [mem, read, threw]
RECURSIVE ReadLoop(_, _, _, _, _)
ReadLoop(iovs, iovsLen, bytes, i, acc) ==
  IF ~(i < iovsLen /\ acc.read < Len(bytes)) THEN acc
  ELSE LET ptr == ReadU32(acc.mem, iovs + 8 * i)
           len == ReadU32(acc.mem, iovs + 8 * i + 4)
           toRead == Min(len, Len(bytes) - acc.read)
       IN  IF ~U8InRange(ptr, toRead) THEN [acc EXCEPT !.threw = TRUE]
           ELSE ReadLoop(iovs, iovsLen, bytes, i + 1,
                         [mem |-> WriteBytes(acc.mem, ptr,
                                             SubSeq(bytes, acc.read + 1, acc.read + toRead)),
                          read |-> acc.read + toRead,
                          threw |-> FALSE])

\* Lines 36-54.  The result: the new stdinBuffer, the memory afterwards, the
\* count of bytes copied, and either the status returned or threw = TRUE.
fd_read(queue, mem, fd, iovs, iovsLen, nread) ==
  IF fd = 0 /\ queue # <<>>
  THEN IF ~U32InRange(iovs, iovsLen * 2)
       THEN [queue |-> queue, mem |-> mem, read |-> 0, threw |-> TRUE, ret |-> 0]
       ELSE LET acc == ReadLoop(iovs, iovsLen, Encode(queue), 0,
                                [mem |-> mem, read |-> 0, threw |-> FALSE])
            IN  IF acc.threw
                THEN [queue |-> queue, mem |-> acc.mem, read |-> acc.read,
                      threw |-> TRUE, ret |-> 0]
                ELSE IF ~U32InRange(nread, 1)
                THEN [queue |-> <<>>, mem |-> acc.mem, read |-> acc.read,
                      threw |-> TRUE, ret |-> 0]
                ELSE [queue |-> <<>>, mem |-> WriteU32(acc.mem, nread, acc.read),
                      read |-> acc.read, threw |-> FALSE, ret |-> 0]
  ELSE [queue |-> queue, mem |-> mem, read |-> 0, threw |-> FALSE, ret |-> -1]

(***************************************************************************)
(* State                                                                   *)
(***************************************************************************)
VARIABLES
  stdoutBuffer,   \* line 1
  stdinBuffer,    \* line 2
  wasmInstance,   \* line 3: 0 (null) or the load whose instance it holds
  memories,       \* memories[i]: the memory of the instance of load i: the
                  \* module's data segments, as the stores of the hooks
                  \* (lines 31, 46, 50) have left them since
  loads,          \* the initWasm calls made so far: [serverPath, st], and as
                  \* history chunk, the data of the message that made the call
  pc,             \* 0, or the load whose module is executing
  outbox,         \* the events posted, in order
  last,           \* the last handler or hook call and what it did
  wrote1,         \* history: all text the module wrote to stream 1
  sinceRead,      \* history: data of the stdin messages since the last read that returned 0
  wfaults,        \* history: fd_write calls that threw
  nmsgs,
  ncalls

vars == <<stdoutBuffer, stdinBuffer, wasmInstance, memories, loads, pc, outbox,
          last, wrote1, sinceRead, wfaults, nmsgs, ncalls>>

NoCall == [op |-> "none", fd |-> 0, threw |-> FALSE, ret |-> 0, qBefore |-> <<>>,
           bufBefore |-> <<>>, outBefore |-> 0, outAfter |-> 0, vecs |-> <<>>,
           posted |-> <<>>, read |-> 0, got |-> <<>>, cap |-> 0, type |-> "",
           err |-> ""]

Init ==
  /\ stdoutBuffer = <<>>
  /\ stdinBuffer = <<>>
  /\ wasmInstance = 0
  /\ memories = <<>>
  /\ loads = <<>>
  /\ pc = 0
  /\ outbox = <<>>
  /\ last = NoCall
  /\ wrote1 = <<>>
  /\ sinceRead = <<>>
  /\ wfaults = 0
  /\ nmsgs = 0
  /\ ncalls = 0

(***************************************************************************)
(* onmessage and initWasm                                                  *)
(***************************************************************************)
\* Lines 6-8: initWasm up to its await: a load of serverPath is in progress.
initWasm(ls, serverPath) == Append(ls, [serverPath |-> serverPath, st |-> "loading"])

\* History: the data of the message whose handler made the newest call.
WithChunk(ls, data) ==
  [ls EXCEPT ![Len(ls)] = [serverPath |-> ls[Len(ls)].serverPath,
                           st |-> ls[Len(ls)].st, chunk |-> data]]

\* Line 70: the guard of the load.
NeedsLoad(instance) == instance = 0

\* Lines 68-75.
onmessage(m) ==
  /\ pc = 0
  /\ nmsgs < MaxMsgs
  /\ nmsgs' = nmsgs + 1
  /\ IF m.type = "stdin"
     THEN /\ loads' = IF NeedsLoad(wasmInstance)
                      THEN WithChunk(initWasm(loads, m.serverPath), m.data)
                      ELSE loads
          /\ memories' = IF NeedsLoad(wasmInstance)
                         THEN Append(memories, DataImage)
                         ELSE memories
          /\ stdinBuffer' = stdinBuffer \o m.data
          /\ sinceRead' = Append(sinceRead, m.data)
     ELSE UNCHANGED <<loads, memories, stdinBuffer, sinceRead>>
  /\ last' = [NoCall EXCEPT !.op = "msg", !.type = m.type]
  /\ UNCHANGED <<stdoutBuffer, wasmInstance, pc, outbox, wrote1,
                 wfaults, ncalls>>

\* Catch with _start outside the try block: the exception escapes the
\* worker's code and nothing is posted.
Catch_Escapes(events) == events

\* Lines 62-64: an exception thrown inside the try block of initWasm is
\* reported as a stderr event.
Catch(events) == Append(events, InitErrorEvent)

\* Lines 8, 62-63: the await of line 8 resumes with a rejection: fetch or
\* compilation failed, or the start function threw.
LoadFail(i) ==
  /\ pc = 0
  /\ loads[i].st \in {"loading", "rejected"}
  /\ loads' = [loads EXCEPT ![i].st = "failed"]
  /\ outbox' = Catch(outbox)
  /\ last' = [NoCall EXCEPT !.op = "loadfail"]
  /\ UNCHANGED <<stdoutBuffer, stdinBuffer, wasmInstance, memories, pc, wrote1, sinceRead,
                 wfaults, nmsgs, ncalls>>

\* LoadOk with init posted before _start is called.
LoadOk_InitFirst(i, hasStart) ==
  /\ pc = 0
  /\ loads[i].st \in {"loading", "instantiated"}
  /\ wasmInstance' = i
  /\ outbox' = Append(outbox, InitEvent(loads[i].serverPath))
  /\ IF hasStart
     THEN /\ pc' = i
          /\ loads' = [loads EXCEPT ![i].st = "started"]
     ELSE /\ pc' = 0
          /\ loads' = [loads EXCEPT ![i].st = "ready"]
  /\ last' = [NoCall EXCEPT !.op = "loadok"]
  /\ UNCHANGED <<stdoutBuffer, stdinBuffer, memories, wrote1, sinceRead,
                 wfaults, nmsgs, ncalls>>

\* Line 8: the module is fetched and compiled and its instantiation begins:
\* the start function of the module, if it has one, executes.
Instantiate(i) ==
  /\ pc = 0
  /\ loads[i].st = "loading"
  /\ pc' = i
  /\ loads' = [loads EXCEPT ![i].st = "instantiating"]
  /\ last' = [NoCall EXCEPT !.op = "instantiate"]
  /\ UNCHANGED <<stdoutBuffer, stdinBuffer, wasmInstance, memories, outbox,
                 wrote1, sinceRead, wfaults, nmsgs, ncalls>>

\* An exception ends the execution of the module of load pc.  Thrown inside
\* _start it unwinds line 59 into the catch of line 62 at once.  Thrown during
\* instantiation it rejects the promise of line 8: the catch runs when the
\* await resumes, in a later turn of the event loop (LoadFail).
Thrown(events) ==
  IF loads[pc].st = "started"
  THEN [outbox |-> Catch(events),
        loads |-> [loads EXCEPT ![pc].st = "trapped"]]
  ELSE [outbox |-> events,
        loads |-> [loads EXCEPT ![pc].st = "rejected"]]

\* Line 8: the start function returns: the instance exists and the promise
\* of line 8 will be fulfilled; the continuation of the await runs in a later
\* turn of the event loop, and other handlers may run before it.
StartFnReturn ==
  /\ pc # 0
  /\ loads[pc].st = "instantiating"
  /\ loads' = [loads EXCEPT ![pc].st = "instantiated"]
  /\ pc' = 0
  /\ last' = [NoCall EXCEPT !.op = "instantiated"]
  /\ UNCHANGED <<stdoutBuffer, stdinBuffer, wasmInstance, memories, outbox,
                 wrote1, sinceRead, wfaults, nmsgs, ncalls>>

\* Lines 57-61: the await of line 8 resumes with the instance (of a module
\* without start function, or whose start function has returned).  With an
\* exported _start the entry point begins to execute (line 59); without one,
\* init is posted at once.
LoadOk(i, hasStart) ==
  /\ pc = 0
  /\ loads[i].st \in {"loading", "instantiated"}
  /\ wasmInstance' = i
  /\ IF hasStart
     THEN /\ pc' = i
          /\ loads' = [loads EXCEPT ![i].st = "started"]
          /\ UNCHANGED outbox
     ELSE /\ pc' = 0
          /\ loads' = [loads EXCEPT ![i].st = "ready"]
          /\ outbox' = Append(outbox, InitEvent(loads[i].serverPath))
  /\ last' = [NoCall EXCEPT !.op = "loadok"]
  /\ UNCHANGED <<stdoutBuffer, stdinBuffer, memories, wrote1, sinceRead,
                 wfaults, nmsgs, ncalls>>

\* Lines 59-61: _start returns; init is posted.
StartReturn ==
  /\ pc # 0
  /\ loads[pc].st = "started"
  /\ loads' = [loads EXCEPT ![pc].st = "ready"]
  /\ outbox' = Append(outbox, InitEvent(loads[pc].serverPath))
  /\ pc' = 0
  /\ last' = [NoCall EXCEPT !.op = "return"]
  /\ UNCHANGED <<stdoutBuffer, stdinBuffer, wasmInstance, memories, wrote1,
                 sinceRead, wfaults, nmsgs, ncalls>>

\* Lines 8, 59, 62-63: the module traps, in its start function or in _start.
StartTrap ==
  /\ pc # 0
  /\ loads' = Thrown(outbox).loads
  /\ outbox' = Thrown(outbox).outbox
  /\ pc' = 0
  /\ last' = [NoCall EXCEPT !.op = "trap"]
  /\ UNCHANGED <<stdoutBuffer, stdinBuffer, wasmInstance, memories, wrote1, sinceRead,
                 wfaults, nmsgs, ncalls>>

(***************************************************************************)
(* Hook calls made by a module while its start function or its _start      *)
(* executes                                                                *)
(***************************************************************************)
OutWord(mem, p) == IF U32InRange(p, 1) THEN ReadU32(mem, p) ELSE -1

\* The sum of the lengths of the vectors of list.
RECURSIVE Capacity(_)
Capacity(list) ==
  IF list = <<>> THEN 0 ELSE Head(list)[2] + Capacity(Tail(list))

\* What is found in the vectors of list after a read that reported n bytes:
\* the first n bytes of the vectors, taken in vector order.
RECURSIVE Gather(_, _, _)
Gather(mem, list, n) ==
  IF n = 0 \/ list = <<>> THEN <<>>
  ELSE LET take == Min(Head(list)[2], n)
       IN  ReadBytes(mem, Head(list)[1], take) \o Gather(mem, Tail(list), n - take)

\* The vectors that the table of iovsLen entries at iovs holds.
TableList(mem, iovs, iovsLen) ==
  IF U32InRange(iovs, iovsLen * 2)
  THEN [k \in 1..iovsLen |->
          <<ReadU32(mem, iovs + 8 * (k - 1)), ReadU32(mem, iovs + 8 * (k - 1) + 4)>>]
  ELSE <<>>

\* Lines 13 and 38: the hooks use the memory of the instance wasmInstance
\* holds, as the calls made so far have left it.  Inside _start that is the
\* calling module (line 57 has run).  Inside a start function it is not:
\* wasmInstance holds the instance of an earlier load, or is still null.  With
\* null a call on a served stream throws at line 13 or 38 and any other call
\* returns at line 34 or 53: no memory is reached, and the image stands for
\* the memory of the calling module, which no hook has stored to yet.
CallMemory(instance) == IF instance = 0 THEN DataImage ELSE memories[instance]

\* Lines 31, 46, 50: the stores of a hook call go to the memory of the
\* instance wasmInstance holds, where the later calls find them.
Stored(instance, mem) ==
  IF instance = 0 THEN memories ELSE [memories EXCEPT ![instance] = mem]

\* Lines 12-13: with wasmInstance null, wasmInstance.exports throws TypeError.
HostWrite(instance, buf, mem, fd, iovs, iovsLen, nwritten) ==
  IF instance = 0 /\ (fd = 1 \/ fd = 2)
  THEN [buf |-> buf, posted |-> <<>>, vecs |-> <<>>, mem |-> mem,
        threw |-> TRUE, ret |-> 0]
  ELSE fd_write(buf, mem, fd, iovs, iovsLen, nwritten)

\* Lines 37-38: the same for fd_read.
HostRead(instance, queue, mem, fd, iovs, iovsLen, nread) ==
  IF instance = 0 /\ fd = 0 /\ queue # <<>>
  THEN [queue |-> queue, mem |-> mem, read |-> 0, threw |-> TRUE, ret |-> 0]
  ELSE fd_read(queue, mem, fd, iovs, iovsLen, nread)

\* The exception of a call that threw: TypeError of lines 13 and 38, or
\* RangeError of a typed array constructor.
ErrorOf(instance, threw) ==
  IF ~threw THEN "" ELSE IF instance = 0 THEN "null" ELSE "range"

\* An exception of a hook goes back to the module that made the call.  It
\* leaves the module's frames (Thrown) unless the module has an exception
\* handler around the call (try ... catch_all); with one the module catches
\* the exception and goes on executing: nothing is posted, the load is as it
\* was.
Raised(events, caught) ==
  IF caught THEN [outbox |-> events, loads |-> loads] ELSE Thrown(events)

\* c = [fd, iovs, iovsLen, out]: the module calls fd_write(fd, iovs, iovsLen,
\* out).
FdWrite(c) ==
  /\ pc # 0
  /\ \E mem \in {CallMemory(wasmInstance)} :
     \E r \in {HostWrite(wasmInstance, stdoutBuffer, mem, c.fd, c.iovs, c.iovsLen, c.out)} :
        /\ ncalls' = ncalls + 1
        /\ stdoutBuffer' = r.buf
        /\ wrote1' = IF c.fd = 1 THEN wrote1 \o Concat(r.vecs) ELSE wrote1
        /\ wfaults' = IF r.threw THEN wfaults + 1 ELSE wfaults
        /\ last' = [NoCall EXCEPT !.op = "write", !.fd = c.fd, !.threw = r.threw,
                                  !.ret = r.ret, !.bufBefore = stdoutBuffer,
                                  !.outBefore = OutWord(mem, c.out),
                                  !.outAfter = OutWord(r.mem, c.out),
                                  !.vecs = r.vecs, !.posted = r.posted,
                                  !.err = ErrorOf(wasmInstance, r.threw)]
        /\ IF r.threw
           THEN \E caught \in BOOLEAN :
                  /\ outbox' = Raised(outbox \o r.posted, caught).outbox
                  /\ loads' = Raised(outbox \o r.posted, caught).loads
                  /\ pc' = IF caught THEN pc ELSE 0
           ELSE /\ outbox' = outbox \o r.posted
                /\ UNCHANGED <<loads, pc>>
        /\ memories' = Stored(wasmInstance, r.mem)
        /\ UNCHANGED <<stdinBuffer, wasmInstance, sinceRead, nmsgs>>

FdRead(c) ==
  /\ pc # 0
  /\ \E mem \in {CallMemory(wasmInstance)} :
     \E r \in {HostRead(wasmInstance, stdinBuffer, mem, c.fd, c.iovs, c.iovsLen, c.out)},
        vectors \in {TableList(mem, c.iovs, c.iovsLen)} :
        /\ ncalls' = ncalls + 1
        /\ stdinBuffer' = r.queue
        /\ sinceRead' = IF ~r.threw /\ r.ret = 0 THEN <<>> ELSE sinceRead
        /\ last' = [NoCall EXCEPT !.op = "read", !.fd = c.fd, !.threw = r.threw,
                                  !.ret = r.ret, !.qBefore = stdinBuffer,
                                  !.outBefore = OutWord(mem, c.out),
                                  !.outAfter = OutWord(r.mem, c.out),
                                  !.read = r.read,
                                  !.cap = Capacity(vectors),
                                  !.got = IF r.threw THEN <<>>
                                          ELSE Gather(r.mem, vectors, r.read),
                                  !.err = ErrorOf(wasmInstance, r.threw)]
        /\ IF r.threw
           THEN \E caught \in BOOLEAN :
                  /\ outbox' = Raised(outbox, caught).outbox
                  /\ loads' = Raised(outbox, caught).loads
                  /\ pc' = IF caught THEN pc ELSE 0
           ELSE UNCHANGED <<outbox, loads, pc>>
        /\ memories' = Stored(wasmInstance, r.mem)
        /\ UNCHANGED <<stdoutBuffer, wasmInstance, wrote1, wfaults, nmsgs>>

(***************************************************************************)
(* Inputs                                                                  *)
(***************************************************************************)
Paths == {1, 2}

Msg(type, path, data) == [type |-> type, serverPath |-> path, data |-> data]
Msgs == {Msg("stdin", 1, <<97>>), Msg("stdin", 2, <<98>>), Msg("other", 1, <<97>>)}

\* The hook call fd(fd, At(k), n, OutBase): its vector list is the n vectors
\* from the k-th of the module's table.
Call(fd, k, n) == [fd |-> fd, iovs |-> At(k), iovsLen |-> n, out |-> OutBase]

\* Spec: writes of the first byte of the text, of its first two bytes ("a"
\* and "a\n" as instantiated) and of a vector out of range; a read into the
\* first byte of the text.
WriteCalls == {Call(1, 1, 1), Call(1, 2, 1), Call(1, 8, 1)}
ReadCalls == {Call(0, 1, 1)}

\* The hook calls of SpecIO: every shape of vector list, the faults (a vector,
\* the table or the out location outside memory, a misaligned table) and the
\* unsupported streams.
Fault(fd, iovs, out) == [fd |-> fd, iovs |-> iovs, iovsLen |-> 1, out |-> out]

WriteCallsIO ==
  {Call(1, c[1], c[2]) : c \in {<<1, 0>>, <<1, 1>>, <<2, 1>>, <<5, 1>>, <<6, 1>>,
                                <<1, 2>>, <<2, 2>>, <<3, 2>>, <<5, 2>>, <<7, 2>>}}
  \cup {Call(2, c[1], c[2]) : c \in {<<1, 0>>, <<1, 1>>, <<2, 1>>, <<1, 2>>, <<7, 2>>}}
  \cup {Fault(1, MemSize - 4, OutBase),
        Fault(1, TableBase + 2, OutBase),
        Fault(1, At(2), MemSize)}
  \cup {Call(0, 2, 1), Call(3, 2, 1)}

ReadCallsIO ==
  {Call(0, c[1], c[2]) : c \in {<<4, 0>>, <<4, 1>>, <<2, 1>>, <<4, 2>>, <<8, 1>>}}
  \cup {Fault(0, MemSize - 4, OutBase),
        Fault(0, At(2), MemSize)}
  \cup {Call(1, 2, 1), Call(3, 2, 1)}

MsgsIO == {Msg("stdin", 2, <<98, 10>>)}
FirstData == {<<97>>, <<97, 233>>, <<97, 98, 10>>}

OnMessageStep == \E m \in Msgs : onmessage(m)
LoadFailStep == \E i \in 1..Len(loads) : LoadFail(i)
InstantiateStep == \E i \in 1..Len(loads) : Instantiate(i)
LoadOkStep == \E i \in 1..Len(loads), hasStart \in BOOLEAN : LoadOk(i, hasStart)
FdWriteStep == ncalls < MaxCalls /\ \E c \in WriteCalls : FdWrite(c)
FdReadStep == ncalls < MaxCalls /\ \E c \in ReadCalls : FdRead(c)

Next ==
  \/ OnMessageStep
  \/ LoadFailStep
  \/ InstantiateStep
  \/ StartFnReturn
  \/ LoadOkStep
  \/ FdWriteStep
  \/ FdReadStep
  \/ StartReturn
  \/ StartTrap

Spec == Init /\ [][Next]_vars

(***************************************************************************)
(* SpecIO: the hook calls in full.  It starts where Spec is after the      *)
(* first stdin message (serverPath 1, data d) and a successful load whose  *)
(* module exports _start: the entry point has begun to execute.            *)
(***************************************************************************)
InitIO ==
  \E d \in FirstData :
    /\ stdoutBuffer = <<>>
    /\ stdinBuffer = d
    /\ wasmInstance = 1
    /\ memories = <<DataImage>>
    /\ loads = <<[serverPath |-> 1, st |-> "started", chunk |-> d]>>
    /\ pc = 1
    /\ outbox = <<>>
    /\ last = [NoCall EXCEPT !.op = "loadok"]
    /\ wrote1 = <<>>
    /\ sinceRead = <<d>>
    /\ wfaults = 0
    /\ nmsgs = 1
    /\ ncalls = 0

OnMessageStepIO == \E m \in MsgsIO : onmessage(m)
FdWriteStepIO == ncalls < MaxCallsIO /\ \E c \in WriteCallsIO : FdWrite(c)
FdReadStepIO == ncalls < MaxCallsIO /\ \E c \in ReadCallsIO : FdRead(c)

NextIO ==
  \/ OnMessageStepIO
  \/ FdWriteStepIO
  \/ FdReadStepIO
  \/ StartReturn
  \/ StartTrap

SpecIO == InitIO /\ [][NextIO]_vars

(***************************************************************************)
(* Helpers of the properties                                               *)
(***************************************************************************)
Last(seq) == seq[Len(seq)]
IsStdout(e) == e.type = "stdout"
IsInit(e) == e.type = "init"
Count(events, e) == Cardinality({k \in 1..Len(events) : events[k] = e})
CountStdout(events) == Cardinality({k \in 1..Len(events) : IsStdout(events[k])})
CountInit(events) == Cardinality({k \in 1..Len(events) : IsInit(events[k])})

\* The text of the stdout events, in emission order.
RECURSIVE Emitted(_)
Emitted(events) ==
  IF events = <<>> THEN <<>>
  ELSE (IF IsStdout(Head(events)) THEN Head(events).data ELSE <<>>)
       \o Emitted(Tail(events))

\* The text written to stream 1 since the previous stdout event.
SinceEvent == SubSeq(wrote1, Len(Emitted(outbox)) + 1, Len(wrote1))

\* The indices of the vectors of a call that contain a line terminator.
NlVecs(vecs) == {k \in 1..Len(vecs) : Includes(vecs[k], NL)}
MinOf(S) == CHOOSE k \in S : \A j \in S : k <= j
MaxOf(S) == CHOOSE k \in S : \A j \in S : k >= j

\* This step is an fd_write call on stream fd that returned 0.
WriteReturned(fd) ==
  /\ ncalls' = ncalls + 1
  /\ last'.op = "write" /\ last'.fd = fd /\ ~last'.threw /\ last'.ret = 0

(***************************************************************************)
(* C1                                                                      *)
(***************************************************************************)
\* C1: load-once: only the first stdin message of a session starts a load, so
\* at most one initWasm call is ever made and at most one load or Module
\* Instance exists.
C1_LoadOnce == Len(loads) <= 1

(***************************************************************************)
(* C2                                                                      *)
(***************************************************************************)
\* The case of C2: earlier write calls left text without a line terminator
\* pending, and this call, which returns 0, supplies a terminator.
C2_Case ==
  /\ WriteReturned(1)
  /\ SinceEvent # <<>>
  /\ ~Includes(SinceEvent, NL)
  /\ Includes(Concat(last'.vecs), NL)

\* C2 as claimed: in that case exactly one stdout event is emitted, its data
\* is all the text written since the previous stdout event, and the
\* accumulator is empty afterwards.
C2_OneEventAllText ==
  [][C2_Case =>
       /\ outbox' = Append(outbox, StdoutEvent(SinceEvent \o Concat(last'.vecs)))
       /\ stdoutBuffer' = <<>>]_vars

\* C2 as amended: in that case one stdout event is emitted for each vector of
\* the call that contains a line terminator; the first carries all the text
\* written since the previous stdout event up to and including its vector,
\* and afterwards the accumulator holds the text of the vectors that follow
\* the last vector with a terminator.
C2_OneEventPerTerminatedVector ==
  [][C2_Case =>
       LET vs == last'.vecs
           first == MinOf(NlVecs(vs))
           final == MaxOf(NlVecs(vs))
           new == SubSeq(outbox', Len(outbox) + 1, Len(outbox'))
       IN  /\ SubSeq(outbox', 1, Len(outbox)) = outbox
           /\ Len(new) = Cardinality(NlVecs(vs))
           /\ \A k \in 1..Len(new) : IsStdout(new[k])
           /\ new[1].data = SinceEvent \o Concat(SubSeq(vs, 1, first))
           /\ stdoutBuffer' = Concat(SubSeq(vs, final + 1, Len(vs)))]_vars

\* Witness of C2: text without terminator is pending, then a call of two
\* vectors whose first holds the terminator.
C2_Witness ==
  /\ last.op = "write" /\ last.fd = 1 /\ ~last.threw
  /\ last.bufBefore # <<>> /\ ~Includes(last.bufBefore, NL)
  /\ Len(last.vecs) = 2 /\ Includes(last.vecs[1], NL) /\ ~Includes(last.vecs[2], NL)
  /\ stdoutBuffer = last.vecs[2]

(***************************************************************************)
(* C3                                                                      *)
(***************************************************************************)
\* C3: as long as the text written to stream 1 contains no line terminator,
\* no stdout event has been emitted.
C3_NoStdoutBeforeTerminator ==
  ~Includes(wrote1, NL) => CountStdout(outbox) = 0

\* Witness of C3: stdin messages have been received and the module has read
\* the queue into its text, cutting a two-byte sequence, and written that
\* text, "a" and U+FFFD, to stream 1: no terminator, no stdout event.
C3_Witness ==
  /\ ncalls >= 2 /\ nmsgs >= 1
  /\ last.op = "write" /\ last.vecs = <<(<<97, Replacement>>)>>
  /\ ~Includes(wrote1, NL)
  /\ stdoutBuffer = wrote1

(***************************************************************************)
(* C4                                                                      *)
(***************************************************************************)
\* C4: a write call on stream 2 (with at least one vector) posts exactly one
\* stderr event, whose data is the text of all the vectors of the call.
C4_OneStderrPerCall ==
  (last.op = "write" /\ last.fd = 2 /\ ~last.threw /\ Len(last.vecs) >= 1)
    => last.posted = <<StderrEvent(Concat(last.vecs))>>

(***************************************************************************)
(* C5                                                                      *)
(***************************************************************************)
\* C5: the Inbound Queue is the concatenation, in arrival order, of the data
\* of the stdin messages received since the last read that succeeded.
C5_QueueIsConcatenation == stdinBuffer = Concat(sinceRead)

(***************************************************************************)
(* C6                                                                      *)
(***************************************************************************)
\* C6: a read on stream 0 with the queue empty returns -1, writes zero to the
\* bytes-read location and leaves the queue empty.
C6_EmptyRead ==
  (last.op = "read" /\ last.fd = 0 /\ last.qBefore = <<>> /\ last.outBefore # -1)
    => /\ ~last.threw
       /\ last.ret = -1
       /\ last.outAfter = 0
       /\ stdinBuffer = <<>>

(***************************************************************************)
(* C7                                                                      *)
(***************************************************************************)
\* C7: once a load has failed, the session has exactly one stderr event
\* describing a failure and no init event.
C7_OneFailureEvent ==
  (\E i \in 1..Len(loads) : loads[i].st = "failed")
    => /\ Count(outbox, InitErrorEvent) = 1
       /\ CountInit(outbox) = 0

(***************************************************************************)
(* C8                                                                      *)
(***************************************************************************)
\* C8: the data of every stdout event ends with a line terminator (text
\* after the last terminator stays in the accumulator).
C8_StdoutEndsWithTerminator ==
  \A k \in 1..Len(outbox) :
    IsStdout(outbox[k]) => (outbox[k].data # <<>> /\ Last(outbox[k].data) = NL)

(***************************************************************************)
(* C9                                                                      *)
(***************************************************************************)
\* C9: at most one init event is emitted per session, and it carries the
\* serverPath of a load that succeeded.
C9_AtMostOneInit ==
  /\ CountInit(outbox) <= 1
  /\ \A k \in 1..Len(outbox) :
       IsInit(outbox[k]) =>
         \E i \in 1..Len(loads) :
           loads[i].st = "ready" /\ loads[i].serverPath = outbox[k].serverPath

(***************************************************************************)
(* C10                                                                     *)
(***************************************************************************)
\* C10: an fd_write call that touches memory out of range does not end the
\* worker.  Either the module catches the exception and goes on executing
\* (nothing but the events of the call's earlier vectors is posted), or the
\* exception leaves _start and is caught at line 62: it is reported as a
\* stderr event (the last event posted, after those of the call's earlier
\* vectors), the module no longer executes and the worker is back in its
\* event loop.  Every stdin message delivered afterwards is appended to the
\* queue.
C10_BoundsSafety ==
  /\ []((last.op = "write" /\ last.threw /\ pc = 0)
          => /\ loads[1].st = "trapped"
             /\ outbox # <<>> /\ Last(outbox) = InitErrorEvent)
  /\ [][(ncalls' = ncalls + 1 /\ last'.op = "write" /\ last'.threw)
          => \/ /\ pc' = pc /\ loads' = loads
                /\ outbox' = outbox \o last'.posted
             \/ /\ pc' = 0 /\ loads'[pc].st = "trapped"
                /\ outbox' = Append(outbox \o last'.posted, InitErrorEvent)]_vars
  /\ [][(wfaults > 0 /\ nmsgs' = nmsgs + 1)
          => \E m \in MsgsIO : stdinBuffer' = stdinBuffer \o m.data]_vars

\* Witness of C10: after a faulting fd_write call, reported as a stderr
\* event, a stdin message was queued.
C10_Witness ==
  /\ wfaults > 0 /\ last.op = "msg"
  /\ Count(outbox, InitErrorEvent) = 1
  /\ stdinBuffer # <<>> /\ Last(stdinBuffer) = NL

(***************************************************************************)
(* C11                                                                     *)
(***************************************************************************)
\* This step is a hook call on a stream the hook does not serve: fd_write on
\* a stream other than 1 and 2, or fd_read on a stream other than 0.
UnsupportedCall ==
  /\ ncalls' = ncalls + 1
  /\ \/ last'.op = "write" /\ last'.fd \notin {1, 2}
     \/ last'.op = "read" /\ last'.fd # 0

\* C11: a hook call on an unsupported stream returns -1 and changes nothing:
\* the accumulator, the queue and the module's memory (the out location
\* included) are as before, no event is emitted, and the entry point goes on
\* executing.
C11_UnsupportedStream ==
  [][UnsupportedCall =>
       /\ ~last'.threw
       /\ last'.ret = -1
       /\ stdoutBuffer' = stdoutBuffer
       /\ stdinBuffer' = stdinBuffer
       /\ outbox' = outbox
       /\ memories' = memories
       /\ last'.outAfter = last'.outBefore
       /\ pc' = pc]_vars

\* Witness of C11: fd_write on stream 3 returned -1 while text was pending in
\* the accumulator and in the queue; the out location still holds the count
\* that an earlier call stored there.
C11_Witness ==
  /\ last.op = "write" /\ last.fd = 3 /\ last.ret = -1
  /\ last.outAfter # Sentinel /\ last.outAfter = OutWord(memories[1], OutBase)
  /\ stdoutBuffer # <<>> /\ stdinBuffer # <<>>

(***************************************************************************)
(* C12                                                                     *)
(***************************************************************************)
\* C12: once a load has failed, a further stdin message is appended to the
\* queue and starts no other load.
C12_FaultedStays ==
  [][((\E i \in 1..Len(loads) : loads[i].st = "failed") /\ nmsgs' = nmsgs + 1)
       => /\ loads' = loads
          /\ \E m \in Msgs :
               stdinBuffer' = IF m.type = "stdin" THEN stdinBuffer \o m.data
                              ELSE stdinBuffer]_vars

(***************************************************************************)
(* C13                                                                     *)
(***************************************************************************)
\* The scheduling the worker can rely on: the event loop delivers every
\* message posted to the worker and settles every load (the await of line 8
\* resumes), and a module inside _start goes on executing: it calls a hook,
\* returns or traps.
Fairness ==
  /\ WF_vars(OnMessageStep)
  /\ WF_vars(LoadFailStep \/ InstantiateStep \/ LoadOkStep)
  /\ WF_vars(StartFnReturn \/ StartReturn \/ StartTrap \/ FdWriteStep \/ FdReadStep)

SpecFair == Init /\ [][Next]_vars /\ Fairness

\* A stdin message has just been received with the module loaded and its
\* entry point started: _start has made a hook call, and since no message is
\* handled while _start executes, it has returned.
ReadyInput ==
  /\ last.op = "msg" /\ last.type = "stdin"
  /\ wasmInstance # 0 /\ loads[wasmInstance].st = "ready" /\ ncalls > 0

\* A read of the module has drained the queue.
Drained == last.op = "read" /\ last.fd = 0 /\ ~last.threw /\ last.ret = 0

\* C13: every stdin message received once the module is loaded and started is
\* followed, eventually, by a read of the module that drains the queue.
C13_ReadyInputDrained == ReadyInput ~> Drained

\* The module is loaded, no entry point is executing and no load is pending.
Quiescent ==
  /\ pc = 0 /\ wasmInstance # 0
  /\ \A i \in 1..Len(loads) : loads[i].st \notin {"loading", "instantiated"}

\* Why the queue of C13 is never drained: the hooks are called only from
\* inside _start (line 59); once the worker is quiescent it stays so whatever
\* messages arrive, and no hook is called again.
QuiescentForever ==
  [][Quiescent => (Quiescent' /\ ncalls' = ncalls)]_vars

(***************************************************************************)
(* C14                                                                     *)
(***************************************************************************)
IsPrefix(a, b) == Len(a) <= Len(b) /\ SubSeq(b, 1, Len(a)) = a

\* C14: when the entry point of the load that the first stdin message
\* triggered starts, the data of that message is in the queue, at its head,
\* where the module's first read on stream 0 finds it.
C14_FirstChunkQueued ==
  [][(pc' = 1 /\ loads[1].st # "started" /\ loads'[1].st = "started")
       => IsPrefix(loads[1].chunk, stdinBuffer')]_vars

(***************************************************************************)
(* C15                                                                     *)
(***************************************************************************)
\* The indices of the vectors with a line terminator, in vector order.
NlSeq(vecs) ==
  LET HasNl(k) == Includes(vecs[k], NL)
  IN  SelectSeq([k \in 1..Len(vecs) |-> k], HasNl)

\* The exception of the hook call of this step left the module, inside
\* _start: the catch of line 62 has run.
Escaped == last'.threw /\ pc # 0 /\ pc' = 0 /\ loads'[pc].st = "trapped"

\* The events that the hook call of this step posted (the event of the catch
\* of line 63, posted when the exception of the call left _start, is not one
\* of them).
NewEvents ==
  SubSeq(outbox', Len(outbox) + 1, Len(outbox') - (IF Escaped THEN 1 ELSE 0))

\* C15: output events are emitted in write-call order.  The events of a write
\* call are appended after all the events emitted before it; a call on
\* stream 2 emits the stderr events of its vectors in vector order; a call on
\* stream 1 emits a stdout event at each vector that supplies a terminator,
\* and each carries, in the order written, the text written since the
\* previous stdout event up to and including that vector.
C15_WriteCallOrder ==
  [][(ncalls' = ncalls + 1 /\ last'.op = "write" /\ last'.fd \in {1, 2}) =>
       LET vs == last'.vecs
           nl == NlSeq(vs)
           new == NewEvents
       IN  /\ SubSeq(outbox', 1, Len(outbox)) = outbox
           /\ last'.fd = 2 => new = [k \in 1..Len(vs) |-> StderrEvent(vs[k])]
           /\ last'.fd = 1 =>
                /\ Len(new) = Len(nl)
                /\ \A j \in 1..Len(nl) :
                     new[j] = StdoutEvent(
                       (IF j = 1 THEN stdoutBuffer ELSE <<>>)
                       \o Concat(SubSeq(vs, (IF j = 1 THEN 1 ELSE nl[j - 1] + 1), nl[j])))
                /\ IsPrefix(Emitted(outbox'), wrote1')]_vars

\* Witness of C15: 'a' written to stream 1, then 'a' to stream 2, then 'a\n'
\* to stream 1: the stderr event precedes the stdout event, which carries the
\* text of the first and the third call.
C15_Witness ==
  /\ last.op = "write" /\ last.fd = 1 /\ last.bufBefore # <<>>
  /\ Len(outbox) = 2
  /\ outbox[1] = StderrEvent(<<97>>)
  /\ outbox[2] = StdoutEvent(<<97, 97, NL>>)

(***************************************************************************)
(* C16                                                                     *)
(***************************************************************************)
\* The case of C16: the last step was an fd_read call on stream 0 with a
\* non-empty queue, all of whose memory accesses were in range (out-of-range
\* accesses are the case of C17).
C16_Case ==
  /\ last.op = "read" /\ last.fd = 0 /\ last.err # "range"
  /\ last.qBefore # <<>>

\* C16: such a call returns 0; with n the smaller of the queue's length in
\* bytes and the total capacity of the vectors, the vectors hold, in vector
\* order, the first n bytes of the queue, n is stored at the bytes-read
\* location, and the queue is empty, whatever n is.  An empty queue stays
\* empty until a stdin message arrives.
C16_ReadDrains ==
  /\ [](C16_Case =>
          LET bytes == Encode(last.qBefore)
              n == Min(Len(bytes), last.cap)
          IN  /\ ~last.threw
              /\ last.ret = 0
              /\ last.read = n
              /\ last.got = SubSeq(bytes, 1, n)
              /\ last.outAfter = n
              /\ stdinBuffer = <<>>)
  /\ [][(stdinBuffer = <<>> /\ stdinBuffer' # <<>>)
          => (nmsgs' = nmsgs + 1 /\ last'.type = "stdin")]_vars

\* C16 for the calls made with an instance held by wasmInstance.
C16_ReadDrainsWithInstance ==
  (C16_Case /\ last.err # "null") =>
    LET bytes == Encode(last.qBefore)
        n == Min(Len(bytes), last.cap)
    IN  /\ ~last.threw
        /\ last.ret = 0
        /\ last.read = n
        /\ last.got = SubSeq(bytes, 1, n)
        /\ last.outAfter = n
        /\ stdinBuffer = <<>>

(***************************************************************************)
(* C17                                                                     *)
(***************************************************************************)
\* C17: a hook call that faults on an out-of-range memory access has changed
\* no host state: after a faulting fd_write the accumulator is as before the
\* call and the call has posted no stdout or stderr event for its earlier
\* vectors; after a faulting fd_read the queue is as before the call.
C17_FaultChangesNothing ==
  /\ (last.op = "write" /\ last.threw)
       => (stdoutBuffer = last.bufBefore /\ last.posted = <<>>)
  /\ (last.op = "read" /\ last.threw) => stdinBuffer = last.qBefore

(***************************************************************************)
(* C18                                                                     *)
(***************************************************************************)
\* C18: the text of the stdout events, in emission order, followed by the
\* accumulator is the text the module has written to stream 1 (the decoded
\* text of every vector fd_write has handled, in write order).
C18_Conservation == Emitted(outbox) \o stdoutBuffer = wrote1

\* Witness of C18: the module has read "ab\n" from the queue into its text
\* and written it back in two calls: "b\n" and a lone lead byte, then "ab".
\* One stdout event was posted and text is left in the accumulator.
C18_Witness ==
  /\ ncalls = 3
  /\ outbox = <<StdoutEvent(<<98, NL>>)>>
  /\ stdoutBuffer = <<Replacement, 97, 98>>

(***************************************************************************)
(* C19                                                                     *)
(***************************************************************************)
IsSuffix(a, b) ==
  Len(a) <= Len(b) /\ SubSeq(b, Len(b) - Len(a) + 1, Len(b)) = a

\* C19: the accumulator never holds a line terminator, and it is a suffix of
\* the text written to stream 1; after an fd_write call on stream 1 (whether
\* it returned or stopped at a faulting vector) it holds the text of the
\* vectors that follow the last vector with a terminator, appended to what it
\* held before when the call had no such vector.
C19_NoTerminatorPending ==
  /\ [](~Includes(stdoutBuffer, NL) /\ IsSuffix(stdoutBuffer, wrote1))
  /\ [][(ncalls' = ncalls + 1 /\ last'.op = "write" /\ last'.fd = 1) =>
          LET vs == last'.vecs
              nl == NlSeq(vs)
          IN  stdoutBuffer' =
                IF nl = <<>> THEN stdoutBuffer \o Concat(vs)
                ELSE Concat(SubSeq(vs, nl[Len(nl)] + 1, Len(vs)))]_vars

\* Witness of C19: a call of two vectors, the first with a terminator that
\* the module had read from the queue ("b\n"), made with the accumulator
\* empty: the accumulator holds the second vector only.
C19_Witness ==
  /\ last.op = "write" /\ last.fd = 1 /\ ~last.threw
  /\ last.bufBefore = <<>>
  /\ Len(last.vecs) = 2 /\ last.vecs[1] = <<98, NL>>
  /\ stdoutBuffer = last.vecs[2] /\ stdoutBuffer # <<>>
  /\ Includes(wrote1, NL)

(***************************************************************************)
(* C20                                                                     *)
(***************************************************************************)
\* The loads whose entry point has returned (or whose module has none).
ReadyLoads == {i \in 1..Len(loads) : loads[i].st = "ready"}

\* C20: init is posted for a load only when its entry point has returned.
\* There are as many init events as loads whose entry point has returned, so
\* none for a load whose entry point is executing, has trapped or was never
\* reached; an init event is posted only by the step in which _start returns
\* (or, without _start, the load resolves), as the last event so far, hence
\* after every event of the writes made during that entry point; while an
\* entry point executes, the events posted are never init.
C20_InitAfterStart ==
  /\ [](CountInit(outbox) = Cardinality(ReadyLoads))
  /\ [](pc # 0 => loads[pc].st \in {"instantiating", "started"})
  /\ [][CountInit(outbox') > CountInit(outbox) =>
          \E i \in 1..Len(loads) :
            /\ pc \in {0, i} /\ pc' = 0
            /\ loads[i].st \in (IF pc = i THEN {"started"}
                                ELSE {"loading", "instantiated"})
            /\ loads'[i].st = "ready"
            /\ outbox' = Append(outbox, InitEvent(loads[i].serverPath))]_vars
  /\ [][(pc # 0 /\ pc' = pc) =>
          \A k \in (Len(outbox) + 1)..Len(outbox') : ~IsInit(outbox'[k])]_vars

\* Witness of C20: the entry point of the only load wrote a line to stream 1
\* and returned: the stdout event is followed by init.
C20_Witness ==
  /\ last.op = "return" /\ Len(loads) = 1 /\ loads[1].st = "ready"
  /\ Len(outbox) = 2
  /\ IsStdout(outbox[1]) /\ IsInit(outbox[2])

====
